---- MODULE Spec2Model ----
(***************************************************************************)
(* The csv (space separated) text archive pair of cereal:                  *)
(* CSVOutputArchive::saveCsv, CSVInputArchive::loadCsv and the NameValue-  *)
(* Pair / SizeTag serialization functions.                                 *)
(*                                                                         *)
(* Bytes and chars are integers.  A stream is a sequence of bytes 0..255.  *)
(* `char` is the signed 8 bit type of the x86 / x64 builds, so the cast    *)
(* static_cast<char>(int) is modelled by ToChar.  Integer types keep their *)
(* width (int8_t, uint16_t); a floating point value is the exact decimal   *)
(* m * 10^e it prints as in std::chars_format::fixed.                      *)
(***************************************************************************)
EXTENDS Integers, Sequences, FiniteSets, TLC

\* ------------------------------------------------------------------ bounds
\* Values one writer saves / calls one reader makes.
MaxVals == 2
\* Length of the hand-made input streams offered to a reader.
MaxRawLen == 3

\* ------------------------------------------------------- program constants
\* char begin [ 64 ]
BufSize == 64
\* ' '
SP == 32
\* std::streambuf::traits_type::eof(), compared as -1
EOFV == -1
\* '-'
MINUS == 45
\* '.'
DOT == 46
\* '0'
ZERO == 48
\* base of to_chars / from_chars
BASE == 10

MinOf(a, b) == IF a < b THEN a ELSE b

Rep(c, n) == [i \in 1..n |-> c]

\* static_cast<char>(int): the low 8 bits, read as a signed char.
ToChar(i) == LET b == i % 256 IN IF b > 127 THEN b - 256 ELSE b

\* A char stored back into a std::string, seen as a stream byte again.
ToByte(c) == c % 256

\* ------------------------------------------------------------ integer types
IntTypes == {"int8", "uint16"}

IsSigned(ty) == ty = "int8"

TypeMin(ty) == IF ty = "int8" THEN -128 ELSE 0

TypeMax(ty) == IF ty = "int8" THEN 127 ELSE 65535

IsIntegral(ty) == ty \in IntTypes

IsFloatingPoint(ty) == ty = "double"

IsArithmetic(ty) == IsIntegral(ty) \/ IsFloatingPoint(ty)

IsString(ty) == ty = "string"

\* -------------------------------------------------- std::to_chars (integer)
RECURSIVE Digits(_)
Digits(n) ==
    IF n < BASE THEN <<ZERO + n>>
    ELSE Append(Digits(n \div BASE), ZERO + (n % BASE))

\* A mutant of ToCharsInt: the sign is dropped.
ToCharsIntNoSign(n) == IF n < 0 THEN Digits(-n) ELSE Digits(n)

\* The text std::to_chars(begin, begin + 64, n, 10) produces.
ToCharsInt(n) == IF n < 0 THEN <<MINUS>> \o Digits(-n) ELSE Digits(n)

\* -------------------------------------------- std::to_chars (double, fixed)
\* A double is [neg, m, e]: (-1)^neg * m * 10^e, m not a multiple of 10
\* unless it is 0.
ToCharsFixed(f) ==
    LET d == Digits(f.m)
        k == -f.e
        body == IF f.e >= 0 THEN (IF f.m = 0 THEN d ELSE d \o Rep(ZERO, f.e))
                ELSE IF Len(d) > k
                     THEN SubSeq(d, 1, Len(d) - k) \o <<DOT>>
                          \o SubSeq(d, Len(d) - k + 1, Len(d))
                     ELSE <<ZERO, DOT>> \o Rep(ZERO, k - Len(d)) \o d
    IN IF f.neg THEN <<MINUS>> \o body ELSE body

\* ------------------------------------------------ std::from_chars (integer)
IsDigit(c) == c \in ZERO..(ZERO + 9)

\* Number of leading digit chars of s.
RECURSIVE DigitRun(_)
DigitRun(s) ==
    IF s = <<>> \/ ~IsDigit(Head(s)) THEN 0 ELSE 1 + DigitRun(Tail(s))

\* Magnitude of the first n digits of s, saturating just above cap.
RECURSIVE Magnitude(_, _, _, _)
Magnitude(s, n, acc, cap) ==
    IF n = 0 THEN acc
    ELSE LET nx == acc * BASE + (Head(s) - ZERO)
         IN Magnitude(Tail(s), n - 1, IF nx > cap THEN cap + 1 ELSE nx, cap)

\* A mutant of FromCharsInt: an empty or malformed token stores 0, as
\* atoi / strtol would.
FromCharsIntZero(s, ty, old) ==
    LET neg == IsSigned(ty) /\ s # <<>> /\ Head(s) = MINUS
        rest == IF neg THEN Tail(s) ELSE s
        nd == DigitRun(rest)
        cap == TypeMax(ty) + 1
        mag == Magnitude(rest, nd, 0, cap)
        v == IF neg THEN -mag ELSE mag
    IN IF nd = 0 THEN 0
       ELSE IF v < TypeMin(ty) \/ v > TypeMax(ty) THEN old
       ELSE v

\* std::from_chars(begin, end, t, 10): the value left in t, which held old.
\* No digits: invalid_argument, t untouched.  Out of the range of the type:
\* result_out_of_range, t untouched.  A leading '-' is taken for signed
\* types only.
FromCharsInt(s, ty, old) ==
    LET neg == IsSigned(ty) /\ s # <<>> /\ Head(s) = MINUS
        rest == IF neg THEN Tail(s) ELSE s
        nd == DigitRun(rest)
        cap == TypeMax(ty) + 1
        mag == Magnitude(rest, nd, 0, cap)
        v == IF neg THEN -mag ELSE mag
    IN IF nd = 0 THEN old
       ELSE IF v < TypeMin(ty) \/ v > TypeMax(ty) THEN old
       ELSE v

\* ----------------------------------------- std::from_chars (double, fixed)
\* Number of trailing '0' chars of s.
RECURSIVE TrailingZeros(_)
TrailingZeros(s) ==
    IF s = <<>> \/ s[Len(s)] # ZERO THEN 0
    ELSE 1 + TrailingZeros(SubSeq(s, 1, Len(s) - 1))

\* Largest magnitude a parsed mantissa keeps.
MantissaCap == 1000000

FromCharsFixed(s, old) ==
    LET neg == s # <<>> /\ Head(s) = MINUS
        rest == IF neg THEN Tail(s) ELSE s
        ni == DigitRun(rest)
        hasDot == Len(rest) > ni /\ rest[ni + 1] = DOT
        fracSrc == IF hasDot THEN SubSeq(rest, ni + 2, Len(rest)) ELSE <<>>
        nf == DigitRun(fracSrc)
        all == SubSeq(rest, 1, ni) \o SubSeq(fracSrc, 1, nf)
        tz == TrailingZeros(all)
        sig == SubSeq(all, 1, Len(all) - tz)
        m == Magnitude(sig, Len(sig), 0, MantissaCap)
    IN IF ni + nf = 0 THEN old
       ELSE IF m = 0 THEN [neg |-> neg, m |-> 0, e |-> 0]
       ELSE [neg |-> neg, m |-> m, e |-> tz - nf]


\* ------------------------------------------------------------------- state
VARIABLES
    out,       \* bytes the output sink holds (itsStream.rdbuf() of the writer)
    sinkCap,   \* bytes the output sink can take in all
    osState,   \* iostate of the writer's std::ostream: "good" or "fail"
    wstatus,   \* the writer: "ok", "WriteFailure" (Exception thrown),
               \* "crashed", "overrun" (returned after a store outside begin)
    sv,        \* locals of the last saveCsv call
    written,   \* the values handed to the writer, in order
    in,        \* bytes of the input source (itsStream.rdbuf() of the reader)
    pos,       \* read offset of the input source
    mode,      \* "none" before a reader exists, then what it was opened on
    pc,        \* loadCsv: "idle", "scan", "decode", "crashed"
    begin,     \* the chars stored in char begin[64] by this call, from index 0
    end,       \* end - begin
    T,         \* the destination type of this loadCsv instantiation
    t,         \* the destination
    t0,        \* the destination as the caller passed it
    startPos,  \* pos when the call began
    stIdx,     \* index of the last store *end = ..., -1 before the first
    corrupt,   \* a store outside begin[0..63] has happened in this call
    lastEnd,   \* what ended the scan: "delim", "eof", "none"
    rwrap,     \* how the call was reached: "direct", "nvp", "sizetag"
    loaded,    \* the values decoded so far, in order
    replay,    \* "no", "run", "done": the last token read again with a delimiter
    savedT     \* the value decoded from the token that end-of-input ended

wvars == <<out, sinkCap, osState, wstatus, sv, written>>

rvars == <<in, pos, mode, pc, begin, end, T, t, t0, startPos, stIdx, corrupt,
           lastEnd, rwrap, loaded, replay, savedT>>

vars == <<out, sinkCap, osState, wstatus, sv, written, in, pos, mode, pc,
          begin, end, T, t, t0, startPos, stIdx, corrupt, lastEnd, rwrap,
          loaded, replay, savedT>>

\* ------------------------------------------------------ the caller's values
\* Bytes the caller's strings and streams are made of: 'a', '7' and the
\* lead byte of a two byte UTF-8 sequence.  The stream is ASCII / UTF-8, so
\* the byte 0xFF does not occur in it.
Chr == [a |-> 97, seven |-> 55, lead |-> 195]

LowerA == Chr.a

UpperLead == Chr.lead

SEVEN == Chr.seven

Dbl(n, m, e) == [neg |-> n, m |-> m, e |-> e]

IntValues ==
    {[type |-> "int8", val |-> v] : v \in {TypeMin("int8"), -1, 0, TypeMax("int8")}}
    \cup {[type |-> "uint16", val |-> v] : v \in {TypeMax("uint16")}}

StringValues ==
    {[type |-> "string", val |-> s] :
        s \in {<<>>, <<UpperLead, LowerA>>, <<LowerA, SP, LowerA>>,
               Rep(LowerA, BufSize - 1), Rep(LowerA, BufSize)}}

DoubleValues ==
    {[type |-> "double", val |-> d] :
        d \in {Dbl(TRUE, 35, -1), Dbl(FALSE, 1, BufSize - 1),
               Dbl(FALSE, 1, BufSize)}}

SaveValues == IntValues \cup StringValues \cup DoubleValues

Names == {"x", "count"}

\* The values the caller wraps in a NameValuePair.
NvpValues ==
    {[type |-> "int8", val |-> -1], [type |-> "string", val |-> <<UpperLead, LowerA>>]}

\* NameValuePair<T>: a name and a value.
NVPs == {[name |-> n, value |-> v] : n \in Names, v \in NvpValues}

\* SizeTag<size_type>: a count.
SizeTags == {[size |-> n] : n \in {0, 3, TypeMax("uint16")}}

\* Capacity of a sink that never fills.
BigCap == (MaxVals + 1) * (BufSize + 2)

SinkCaps == {0, 2, BigCap}

\* What a destination holds before loadCsv: value-initialised, or not.
Defaults(ty) ==
    IF IsIntegral(ty) THEN {0, 7}
    ELSE IF IsFloatingPoint(ty) THEN {Dbl(FALSE, 0, 0), Dbl(FALSE, 35, -1)}
    ELSE {<<>>, <<LowerA>>}

DefaultOf(ty) ==
    IF IsIntegral(ty) THEN 0
    ELSE IF IsFloatingPoint(ty) THEN Dbl(FALSE, 0, 0)
    ELSE <<>>

\* What a destination holds before a writer's stream is read back: a value
\* no writer wrote.
Sentinel(ty) ==
    IF IsIntegral(ty) THEN 7
    ELSE IF IsFloatingPoint(ty) THEN Dbl(FALSE, 35, -1)
    ELSE <<LowerA>>

Types == IntTypes \cup {"double", "string"}

NvpTypes == {v.type : v \in NvpValues}

RawAlphabet == {LowerA, SEVEN, SP}

SeqsUpTo(S, n) == UNION {[1..k -> S] : k \in 0..n}

LongTokens ==
    {Rep(LowerA, n) \o tail :
        n \in {BufSize - 1, BufSize, BufSize + 1}, tail \in {<<>>, <<SP>>}}

RawStreams == SeqsUpTo(RawAlphabet, MaxRawLen) \cup LongTokens

NoCall == [text |-> <<>>, end |-> -1, size |-> 0, bytes |-> <<>>,
           writtenSize |-> 0, threw |-> FALSE, arithmetic |-> FALSE]

Init ==
    /\ out = <<>>
    /\ sinkCap \in SinkCaps
    /\ osState = "good"
    /\ wstatus = "ok"
    /\ sv = NoCall
    /\ written = <<>>
    /\ in = <<>>
    /\ pos = 0
    /\ mode = "none"
    /\ pc = "idle"
    /\ begin = <<>>
    /\ end = 0
    /\ T = "string"
    /\ t = <<>>
    /\ t0 = <<>>
    /\ startPos = 0
    /\ stIdx = -1
    /\ corrupt = FALSE
    /\ lastEnd = "none"
    /\ rwrap = "direct"
    /\ loaded = <<>>
    /\ replay = "no"
    /\ savedT = <<>>

\* ------------------------------------------------------- CSVOutputArchive
\* std::streambuf::sputn on the sink: the count of bytes it takes.
Sputn(sofar, bytes) == MinOf(Len(bytes), sinkCap - Len(sofar))

\* The text of an arithmetic value.
TextOf(tv) ==
    IF IsIntegral(tv.type) THEN ToCharsInt(tv.val) ELSE ToCharsFixed(tv.val)

\* saveCsv, the is_arithmetic branch.  to_chars returns end = begin + 64
\* with ec = value_too_large, the buffer unspecified, when the text does not
\* fit; *end++ = ' ' then stores at begin[64], outside the array: the call
\* crashes, or goes on to hand 65 bytes to the sink, and what the program
\* does after that is not followed.
SaveCsvArithmetic(tv) ==
    LET text == TextOf(tv)
        fits == Len(text) <= BufSize
        e == IF fits THEN Len(text) ELSE BufSize
        size == e + 1
    IN \E crash \in (IF e < BufSize THEN {FALSE} ELSE BOOLEAN) :
       \E content \in (IF fits THEN {text}
                       ELSE {Rep(0, BufSize), SubSeq(text, 1, BufSize)}) :
          IF crash
          THEN /\ wstatus' = "crashed"
               /\ sv' = [text |-> text, end |-> e, size |-> 0, bytes |-> <<>>,
                         writtenSize |-> 0, threw |-> FALSE, arithmetic |-> TRUE]
               /\ UNCHANGED <<out, osState>>
          ELSE LET bytes == Append(content, SP)
                   n == Sputn(out, bytes)
               IN /\ out' = out \o SubSeq(bytes, 1, n)
                  /\ sv' = [text |-> text, end |-> e, size |-> size,
                            bytes |-> bytes, writtenSize |-> n,
                            threw |-> (n # size), arithmetic |-> TRUE]
                  /\ wstatus' = IF n # size THEN "WriteFailure"
                                 ELSE IF e < BufSize THEN "ok" ELSE "overrun"
                  /\ UNCHANGED osState

\* saveCsv, the std::string branch: itsStream << t << ' '.  A formatted
\* inserter does nothing on a stream that is not good(), sets the state on a
\* short write, and returns; nothing is thrown (exceptions() is goodbit).
SaveCsvString(tv) ==
    LET s == tv.val
        n1 == IF osState = "good" THEN Sputn(out, s) ELSE 0
        ok1 == osState = "good" /\ n1 = Len(s)
        n2 == IF ok1 THEN Sputn(out \o s, <<SP>>) ELSE 0
    IN /\ out' = out \o SubSeq(s, 1, n1) \o (IF n2 = 1 THEN <<SP>> ELSE <<>>)
       /\ osState' = IF ok1 /\ n2 = 1 THEN "good" ELSE "fail"
       /\ sv' = [text |-> s, end |-> -1, size |-> Len(s) + 1,
                 bytes |-> Append(s, SP), writtenSize |-> n1 + n2,
                 threw |-> FALSE, arithmetic |-> FALSE]
       /\ wstatus' = "ok"

\* ar.saveCsv(t) for the value tv; given is the value the caller holds.
SaveCsv(tv, given, wrap) ==
    /\ mode = "none"
    /\ wstatus = "ok"
    /\ Len(written) < MaxVals
    /\ IF IsArithmetic(tv.type) THEN SaveCsvArithmetic(tv) ELSE SaveCsvString(tv)
    /\ written' = Append(written, [type |-> given.type, val |-> given.val,
                                   wrap |-> wrap])
    /\ UNCHANGED <<sinkCap, in, pos, mode, pc, begin, end, T, t, t0, startPos,
                   stIdx, corrupt, lastEnd, rwrap, loaded, replay, savedT>>

\* A mutant of NvpValue: the name is serialized in place of the value.
NvpName(nvp) == [type |-> "string", val |-> <<LowerA>>]

\* ar( t.value )
NvpValue(nvp) == nvp.value

\* ar( t.size )
SizeTagValue(st) == [type |-> "uint16", val |-> st.size]

\* CEREAL_SAVE_FUNCTION_NAME(CSVOutputArchive &, T const &)
SaveDirect == \E tv \in SaveValues : SaveCsv(tv, tv, "direct")

\* CEREAL_SERIALIZE_FUNCTION_NAME(Archive &, NameValuePair<T> &), saving
SaveNVP == \E nvp \in NVPs : SaveCsv(NvpValue(nvp), nvp.value, "nvp")

\* CEREAL_SERIALIZE_FUNCTION_NAME(Archive &, SizeTag<T> &), saving
SaveSizeTag ==
    \E st \in SizeTags :
        SaveCsv(SizeTagValue(st), [type |-> "uint16", val |-> st.size], "sizetag")


\* -------------------------------------------------------- CSVInputArchive
\* The reader is constructed on a stream: the bytes a writer produced, those
\* bytes without the final delimiter, or a stream made by hand.
OpenReader ==
    /\ mode = "none"
    /\ wstatus = "ok"
    /\ osState = "good"
    /\ \E m \in {"roundtrip", "truncated", "raw"} :
         /\ mode' = m
         /\ CASE m = "roundtrip" -> written # <<>> /\ in' = out
              [] m = "truncated" ->
                    /\ written # <<>>
                    /\ out # <<>>
                    /\ in' = SubSeq(out, 1, Len(out) - 1)
              [] m = "raw" -> written = <<>> /\ in' \in RawStreams
    /\ pos' = 0
    /\ UNCHANGED <<out, sinkCap, osState, wstatus, sv, written, pc, begin,
                   end, T, t, t0, startPos, stIdx, corrupt, lastEnd, rwrap,
                   loaded, replay, savedT>>

\* A mutant of Sbumpc: the byte after a delimiter is taken with it.
SbumpcPastDelimiter(stream, p) ==
    IF p < Len(stream)
    THEN [c |-> stream[p + 1],
          pos |-> IF stream[p + 1] = SP /\ p + 1 < Len(stream) THEN p + 2 ELSE p + 1]
    ELSE [c |-> EOFV, pos |-> p]

\* std::streambuf::sbumpc: the next byte and the advanced offset, or eof.
Sbumpc(stream, p) ==
    IF p < Len(stream) THEN [c |-> stream[p + 1], pos |-> p + 1]
    ELSE [c |-> EOFV, pos |-> p]

\* The value loadCsv leaves in a destination of type ty that held old, from
\* the chars [begin, end).
DecodeAs(ty, tok, old) ==
    IF IsIntegral(ty) THEN FromCharsInt(tok, ty, old)
    ELSE IF IsFloatingPoint(ty) THEN FromCharsFixed(tok, old)
    ELSE [i \in 1..Len(tok) |-> ToByte(tok[i])]

\* The wrapper and type the harness asks for next: the writer's, in order,
\* when the stream is a writer's.
Expecting(ty, wrap) ==
    \/ mode = "raw"
    \/ /\ mode \in {"roundtrip", "truncated"}
       /\ Len(loaded) < Len(written)
       /\ written[Len(loaded) + 1].type = ty
       /\ written[Len(loaded) + 1].wrap = wrap

\* The destinations the harness passes.
Olds(ty) == IF mode = "raw" THEN Defaults(ty) ELSE {Sentinel(ty)}

\* loadCsv( T & t ), entry: char begin [ 64 ] { 0 }; char * end = begin;
LoadCsv(ty, old, wrap) ==
    /\ mode # "none"
    /\ pc = "idle"
    /\ replay = "no"
    /\ Len(loaded) < MaxVals
    /\ Expecting(ty, wrap)
    /\ pc' = "scan"
    /\ begin' = <<>>
    /\ end' = 0
    /\ T' = ty
    /\ t' = old
    /\ t0' = old
    /\ startPos' = pos
    /\ stIdx' = -1
    /\ corrupt' = FALSE
    /\ lastEnd' = "none"
    /\ rwrap' = wrap
    /\ UNCHANGED <<out, sinkCap, osState, wstatus, sv, written, in, pos, mode,
                   loaded, replay, savedT>>

\* CEREAL_LOAD_FUNCTION_NAME(CSVInputArchive &, T &)
LoadDirect ==
    \E ty \in Types : \E old \in Olds(ty) : LoadCsv(ty, old, "direct")

\* CEREAL_SERIALIZE_FUNCTION_NAME(Archive &, NameValuePair<T> &), loading
LoadNVP ==
    \E ty \in NvpTypes : \E old \in Olds(ty) : \E n \in Names :
        LET nvp == [name |-> n, value |-> [type |-> ty, val |-> old]]
        IN LoadCsv(NvpValue(nvp).type, NvpValue(nvp).val, "nvp")

\* CEREAL_SERIALIZE_FUNCTION_NAME(Archive &, SizeTag<T> &), loading
LoadSizeTag ==
    \E old \in Olds("uint16") :
        LET st == [size |-> old]
        IN LoadCsv(SizeTagValue(st).type, SizeTagValue(st).val, "sizetag")

\* One turn of while ( true ): *end = static_cast<char>( sbumpc() ); the two
\* tests; ++end.  A store at begin[64] or beyond is outside the array: the
\* call crashes there, or goes on with its neighbours overwritten.
ScanStep ==
    /\ pc = "scan"
    /\ LET r == Sbumpc(in, pos)
           c == ToChar(r.c)
           inside == end < BufSize
           stop == c = EOFV \/ c = SP
       IN /\ pos' = r.pos
          /\ stIdx' = end
          /\ \E crash \in (IF inside \/ corrupt THEN {FALSE} ELSE BOOLEAN) :
               IF crash
               THEN /\ pc' = "crashed"
                    /\ corrupt' = TRUE
                    /\ UNCHANGED <<begin, end, lastEnd>>
               ELSE /\ begin' = IF inside THEN Append(begin, c) ELSE begin
                    /\ corrupt' = (corrupt \/ ~inside)
                    /\ pc' = IF stop THEN "decode" ELSE "scan"
                    /\ end' = IF stop THEN end ELSE end + 1
                    /\ lastEnd' = IF c = EOFV THEN "eof"
                                  ELSE IF c = SP THEN "delim" ELSE lastEnd
    /\ UNCHANGED <<out, sinkCap, osState, wstatus, sv, written, in, mode, T,
                   t, t0, startPos, rwrap, loaded, replay, savedT>>

\* The chars of the token as the stream holds them.
StreamToken == [i \in 1..end |-> ToChar(in[startPos + i])]

\* What [begin, end) can read as: the stored chars, or, after a store
\* outside the array, the whole token, its first 64 chars, or nothing.
TokenReadings ==
    IF corrupt
    THEN {StreamToken, SubSeq(begin, 1, MinOf(end, Len(begin))), <<>>}
    ELSE {SubSeq(begin, 1, end)}

\* The if constexpr chain after the loop: from_chars or the string copy.
Decode ==
    /\ pc = "decode"
    /\ \E tok \in TokenReadings :
         /\ t' = DecodeAs(T, tok, t)
         /\ loaded' = Append(loaded, [type |-> T, val |-> t'])
    /\ pc' = "idle"
    /\ replay' = IF replay = "run" THEN "done" ELSE replay
    /\ UNCHANGED <<out, sinkCap, osState, wstatus, sv, written, in, pos, mode,
                   begin, end, T, t0, startPos, stIdx, corrupt, lastEnd,
                   rwrap, savedT>>

\* The token that end-of-input cut short is offered again, to a fresh reader
\* and destination, followed by one delimiter.
ReplayDelimited ==
    /\ pc = "idle"
    /\ replay = "no"
    /\ lastEnd = "eof"
    /\ end > 0
    /\ replay' = "run"
    /\ savedT' = t
    /\ in' = Append(in, SP)
    /\ pos' = startPos
    /\ loaded' = SubSeq(loaded, 1, Len(loaded) - 1)
    /\ pc' = "scan"
    /\ begin' = <<>>
    /\ end' = 0
    /\ t' = t0
    /\ stIdx' = -1
    /\ corrupt' = FALSE
    /\ lastEnd' = "none"
    /\ UNCHANGED <<out, sinkCap, osState, wstatus, sv, written, mode, T, t0,
                   startPos, rwrap>>

Next ==
    \/ SaveDirect
    \/ SaveNVP
    \/ SaveSizeTag
    \/ OpenReader
    \/ LoadDirect
    \/ LoadNVP
    \/ LoadSizeTag
    \/ ScanStep
    \/ Decode
    \/ ReplayDelimited

Spec == Init /\ [][Next]_vars


\* ------------------------------------------- integers, every value of a width
\* Integers a writer is given first: all of int8_t, and the 256 lowest and
\* the 256 highest of uint16_t.
WideInts ==
    {[type |-> "int8", val |-> v] : v \in TypeMin("int8")..TypeMax("int8")}
    \cup {[type |-> "uint16", val |-> v] :
            v \in (0..255) \cup ((TypeMax("uint16") - 255)..TypeMax("uint16"))}

InitInt == Init /\ sinkCap = BigCap

\* CEREAL_SAVE_FUNCTION_NAME(CSVOutputArchive &, T const &), integral T
SaveInt ==
    \E tv \in (IF written = <<>> THEN WideInts ELSE IntValues) :
        SaveCsv(tv, tv, "direct")

\* The reader is constructed on the bytes the writer produced.
OpenWritten == OpenReader /\ mode' = "roundtrip"

NextInt ==
    \/ SaveInt
    \/ OpenWritten
    \/ LoadDirect
    \/ ScanStep
    \/ Decode

SpecInt == InitInt /\ [][NextInt]_vars

\* ------------------------------------------------------------- the claims
\* A loadCsv call has been made on the reader.
Called == mode # "none" /\ (pc # "idle" \/ lastEnd # "none")

\* The last loadCsv call has returned.
Returned == Called /\ pc = "idle"

\* The value of a written or loaded entry.
ValueOf(e) == [type |-> e.type, val |-> e.val]

IsPrimitive(e) == IsIntegral(e.type) \/ IsString(e.type)

HasDelimiter(s) == \E i \in 1..Len(s) : s[i] = SP

\* Bytes before the next delimiter or the end of the stream, from offset p.
RECURSIVE PayloadLen(_, _)
PayloadLen(stream, p) ==
    IF p >= Len(stream) \/ stream[p + 1] = SP THEN 0
    ELSE 1 + PayloadLen(stream, p + 1)

\* Bytes of the token at offset p: its payload and its delimiter, if any.
TokenSpan(stream, p) ==
    LET n == PayloadLen(stream, p)
    IN IF p + n < Len(stream) THEN n + 1 ELSE n

\* The bytes saveCsv is to hand to the sink for a value.
TokenOf(e) ==
    IF IsString(e.type) THEN Append(e.val, SP) ELSE Append(TextOf(e), SP)

\* C1: integers and text strings written one by one with saveCsv and read
\* back with loadCsv, same types, same order, come back as the original
\* sequence, wrapped in a NameValuePair / SizeTag or not.
C1_OrderPreservation ==
    (mode = "roundtrip" /\ \A i \in 1..Len(written) : IsPrimitive(written[i]))
    => /\ pc # "crashed"
       /\ (pc = "idle" /\ Len(loaded) = Len(written))
          => \A i \in 1..Len(written) : loaded[i] = ValueOf(written[i])

\* C2: an integer of a native width (0, minimum, maximum, negative) written
\* by saveCsv is read back by loadCsv, into the same type, as itself.
C2_IntegerRoundTrip ==
    mode = "roundtrip"
    => \A i \in 1..Len(loaded) :
          (\A j \in 1..i : IsIntegral(written[j].type))
          => loaded[i] = ValueOf(written[i])

C2_Witness ==
    /\ mode = "roundtrip"
    /\ pc = "idle"
    /\ Len(loaded) = 2
    /\ written[1].type = "int8" /\ written[1].val = TypeMin("int8")
    /\ written[2].type = "uint16" /\ written[2].val = TypeMax("uint16")
    /\ loaded[1].val = TypeMin("int8")
    /\ loaded[2].val = TypeMax("uint16")

\* C3: a string without a delimiter, of any length (empty, 64 bytes or
\* more), written by saveCsv is read back by loadCsv as itself.
C3_TextRoundTrip ==
    (/\ mode = "roundtrip"
     /\ \A i \in 1..Len(written) :
           IsString(written[i].type) /\ ~HasDelimiter(written[i].val))
    => /\ pc # "crashed"
       /\ \A i \in 1..Len(loaded) : loaded[i] = ValueOf(written[i])

\* C4: whenever the sink takes fewer bytes than saveCsv asked it to, for a
\* value of any type, saveCsv throws an Exception carrying both counts.
C4_ShortWriteIsFatal ==
    sv.writtenSize < sv.size => (sv.threw /\ wstatus = "WriteFailure")

C6_TruncatedFinalToken ==
    /\ (replay = "done" /\ ~IsFloatingPoint(T)) => t = savedT
    /\ (mode = "truncated" /\ Len(written) = 1 /\ IsPrimitive(written[1]))
       => pc # "crashed"

\* C7: a NameValuePair or SizeTag produces, or consumes, the bytes of the
\* wrapped value alone: the name adds no byte and takes no token, the count
\* is one integer token, read back as written whatever follows it.
C7_WrappersTransparent ==
    /\ (mode = "none" /\ written # <<>>
        /\ written[Len(written)].wrap \in {"nvp", "sizetag"})
       => /\ sv.bytes = TokenOf(written[Len(written)])
          /\ sv.size = Len(sv.bytes)
          /\ out = SubSeq(out, 1, Len(out) - sv.writtenSize)
                   \o SubSeq(sv.bytes, 1, sv.writtenSize)
    /\ (Returned /\ rwrap \in {"nvp", "sizetag"})
       => /\ pos = startPos + TokenSpan(in, startPos)
          /\ loaded[Len(loaded)].type = T
          /\ (mode = "roundtrip" /\ ~corrupt
              /\ \A j \in 1..Len(loaded) :
                    ~IsFloatingPoint(written[j].type)
                    /\ (IsString(written[j].type)
                        => ~HasDelimiter(written[j].val)))
             => loaded[Len(loaded)] = ValueOf(written[Len(loaded)])

\* A count of 3 was written and read back with one element after it, and a
\* named value was read back.
C7_Witness ==
    /\ mode = "roundtrip"
    /\ Returned
    /\ Len(written) = 2
    /\ Len(loaded) = 2
    /\ written[1].wrap = "sizetag"
    /\ written[1].val = 3
    /\ loaded[1].val = 3
    /\ written[2].wrap = "nvp"
    /\ rwrap = "nvp"
    /\ IsString(T)
    /\ t = written[2].val

\* C8: loadCsv never stores outside begin[0..63], however far away the next
\* delimiter or the end of the input is.
C8_StoreInsideBuffer == stIdx \in -1..(BufSize - 1)

\* A loadCsv step moves the offset forward or not at all.
C9_Forward == (mode' = mode /\ replay' = replay) => pos' >= pos

\* A call has taken no byte beyond its token, and all of it on return.
C9_Span ==
    Called
    => /\ pos >= startPos
       /\ pos <= startPos + TokenSpan(in, startPos)
       /\ Returned => pos = startPos + TokenSpan(in, startPos)

C10_WriterBufferSafety ==
    sv.arithmetic
    => /\ sv.end \in 0..(BufSize - 1)
       /\ sv.size <= BufSize
       /\ wstatus # "crashed"
       /\ sv.bytes = Append(sv.text, SP)

====
